---- MODULE Spec2Model ----
(***************************************************************************)
(* The three example scripts of the cookbook as consumers of the SDK's     *)
(* message stream:                                                         *)
(*   basic    - main           (agents/00-basics/01-basic-sdk.ts)          *)
(*   simple   - reviewCode     (agents/code-review/02-simple.ts)           *)
(*   advanced - runCodeReview, printResults, main (03-advanced.ts)         *)
(* The SDK's query() is the event source: it delivers messages one at a    *)
(* time, then closes or faults.  Console output is the sequence out.       *)
(***************************************************************************)
EXTENDS Integers, Sequences, FiniteSets, TLC

VARIABLES
  script,         \* which script runs: "basic", "simple" or "advanced"
  pc,             \* "loop" (awaiting the next message), "returned", "exited"
  events,         \* the messages query() has delivered so far, in order
  out,            \* the console lines printed so far
  toolCallCount,  \* reviewCode's counter
  result,         \* runCodeReview's result
  exitCode,       \* the process exit status, -1 while the process runs
  other,          \* a second call of the same consumer function in the process:
                  \* its position, messages, printed lines and locals
  abortRequested  \* the caller of the script has asked for the run to be stopped

vars == <<script, pc, events, out, toolCallCount, result, exitCode, other, abortRequested>>

(* ---------------------------------------------------------------- bounds *)
MaxEvents == 2
MaxBlocks == 2

(* ------------------------------------------------------ program constants *)
maxTurns == 250

(* ------------------------------------------------------------- JS values *)
U == "undefined"

Truthy(x) == x \notin {U, ""}

Or(x, y) == IF Truthy(x) THEN x ELSE y

(* ------------------------------------------------- structured_output values *)
Issue(sev, cat, desc) == [severity |-> sev, category |-> cat, description |-> desc]

NoPayload == [kind |-> "undefined", has |-> {}, issues |-> <<>>, summary |-> U, overallScore |-> 0]

NullResult == [kind |-> "null", has |-> {}, issues |-> <<>>, summary |-> U, overallScore |-> 0]

ValidPayload ==
  [kind |-> "object", has |-> {"issues", "summary", "overallScore"},
   issues |-> <<Issue("low", "style", "d1"), Issue("critical", "bug", "d2")>>,
   summary |-> "two issues", overallScore |-> 45]

MissingIssuesPayload ==
  [kind |-> "object", has |-> {"overallScore"},
   issues |-> <<>>, summary |-> U, overallScore |-> 80]

Payloads == {NoPayload, ValidPayload, MissingIssuesPayload}

TruthyValue(v) == v.kind = "object"

Severities == <<"low", "medium", "high", "critical">>

Categories == <<"bug", "security", "performance", "style">>

Range(s) == {s[i] : i \in 1..Len(s)}

Last(q) == q[Len(q)]

SatisfiesReviewSchema(v) ==
  /\ v.kind = "object"
  /\ {"issues", "summary", "overallScore"} \subseteq v.has
  /\ \A i \in 1..Len(v.issues) :
       /\ v.issues[i].severity \in Range(Severities)
       /\ v.issues[i].category \in Range(Categories)

(* ------------------------------------------------------- content blocks *)
NoInput == [file_path |-> U, pattern |-> U, path |-> U, command |-> U, cmd |-> U, subagent_type |-> U]

TextBlock == [type |-> "text", has |-> {"text"}, text |-> "thinking aloud", name |-> U, input |-> NoInput]

ReadBlock == [type |-> "tool_use", has |-> {"name", "input"}, text |-> U, name |-> "Read",
              input |-> [NoInput EXCEPT !.file_path = "a.ts"]]

TaskBlock == [type |-> "tool_use", has |-> {"name", "input"}, text |-> U, name |-> "Task",
              input |-> [NoInput EXCEPT !.subagent_type = "security-scanner"]]

GlobBlock == [type |-> "tool_use", has |-> {"name", "input"}, text |-> U, name |-> "Glob",
              input |-> [NoInput EXCEPT !.pattern = "*.ts"]]

GrepBlock == [type |-> "tool_use", has |-> {"name", "input"}, text |-> U, name |-> "Grep",
              input |-> [NoInput EXCEPT !.pattern = "eval"]]

(* A tool invocation that names a tool outside every allowedTools list. *)
BashBlock == [type |-> "tool_use", has |-> {"name", "input"}, text |-> U, name |-> "Bash",
              input |-> [NoInput EXCEPT !.command = "ls"]]

TextAndNameBlock == [type |-> "text", has |-> {"text", "name", "input"}, text |-> "both", name |-> "Bash",
                     input |-> [NoInput EXCEPT !.command = "ls"]]

OtherBlock == [type |-> "thinking", has |-> {"thinking"}, text |-> U, name |-> U, input |-> NoInput]

Blocks == {TextBlock, ReadBlock, TaskBlock, BashBlock, TextAndNameBlock, OtherBlock}

(* ------------------------------------------------------------- messages *)
(* total_cost_usd is counted in millionths of a dollar; toFixed(4) rounds   *)
(* it to ten-thousandths of a dollar.                                      *)
Costs == {342}

toFixed4_Truncate(c) == c \div 100

toFixed4(c) == (c + 50) \div 100

Msg(t, st, c, so, cost) ==
  [type |-> t, subtype |-> st, content |-> c, structured_output |-> so, total_cost_usd |-> cost,
   result |-> U]

InitMsg == Msg("system", "init", <<>>, NoPayload, 0)

AssistantMsg(c) == Msg("assistant", U, c, NoPayload, 0)

ResultMsg(st, so, cost) == Msg("result", st, <<>>, so, cost)

(* A success result message with its result text, as sent when no output   *)
(* format is declared.                                                     *)
SuccessMsg(t, cost) == [ResultMsg("success", NoPayload, cost) EXCEPT !.result = t]

(* The subtypes of a result message that is not a success. *)
FailureSubtypes == {"error_max_turns", "error_during_execution"}

ResultMessages ==
  {ResultMsg("success", so, c) : so \in Payloads, c \in Costs}
    \cup {ResultMsg(st, NoPayload, c) : st \in FailureSubtypes, c \in Costs}

SessionId == "abc123"


(* An assistant message carries any sequence of up to n content blocks. *)
Contents(n) == UNION {[1..k -> Blocks] : k \in 0..n}

AssistantMessages(n) == {AssistantMsg(c) : c \in Contents(n)}

Messages(n) == {InitMsg} \cup AssistantMessages(n) \cup ResultMessages

(* Error messages are word sequences, so that String.includes is a search. *)
ErrorMessages == {<<"ANTHROPIC_API_KEY", "environment", "variable", "not", "set">>,
                  <<"network", "failure">>}

TypeErrorMessage == <<"Cannot", "read", "properties", "of", "undefined">>

Includes(msg, word) == \E i \in 1..Len(msg) : msg[i] = word

(* -------------------------------------------------------- console lines *)
Line(k, a, b, n) == [k |-> k, a |-> a, b |-> b, n |-> n, msg |-> <<>>]

ErrLine(m) == [k |-> "error", a |-> "", b |-> "", n |-> 0, msg |-> m]

(* ------------------------------------------------ basic script: main loop *)
RECURSIVE BasicBlockLines(_)
BasicBlockLines(c) ==
  IF c = <<>> THEN <<>>
  ELSE LET b == Head(c)
           l == IF "text" \in b.has THEN <<Line("text", b.text, "", 0)>>
                ELSE IF "name" \in b.has THEN <<Line("tool", b.name, "", 0)>>
                ELSE <<>>
       IN l \o BasicBlockLines(Tail(c))

BasicSystemLines_WrongSubtype(m) ==
  IF m.subtype = "start" THEN <<Line("init", SessionId, "Glob, Read", 0)>> ELSE <<>>

BasicSystemLines(m) ==
  IF m.subtype = "init" THEN <<Line("init", SessionId, "Glob, Read", 0)>> ELSE <<>>

BasicResultLines_InvertedIcon(m) ==
  <<Line("done", m.subtype, IF m.subtype # "success" THEN "ok" ELSE "fail", 0),
    Line("cost", "", "", toFixed4(m.total_cost_usd))>>

BasicResultLines(m) ==
  <<Line("done", m.subtype, IF m.subtype = "success" THEN "ok" ELSE "fail", 0),
    Line("cost", "", "", toFixed4(m.total_cost_usd))>>

BasicLines(m) ==
  (IF m.type = "system" THEN BasicSystemLines(m) ELSE <<>>)
  \o (IF m.type = "assistant" THEN BasicBlockLines(m.content) ELSE <<>>)
  \o (IF m.type = "result" THEN BasicResultLines(m) ELSE <<>>)

(* ------------------------------------------------ options of query() *)
allowedTools(sc) ==
  IF sc = "basic" THEN {"Glob", "Read"}
  ELSE IF sc = "simple" THEN {"Read", "Glob", "Grep"}
  ELSE {"Read", "Glob", "Grep", "Task"}

(* The tools declared for the security-scanner sub-agent. *)
SubAgentTools == {"Read", "Grep", "Glob"}

(* The body of the for-await loop has no break, return or throw. *)
BasicLoopContinues(m) == TRUE

(* --------------------------------------------- simple script: reviewCode *)
IsTextBlock_TextOnly(b) == "text" \in b.has /\ "name" \notin b.has

IsTextBlock(b) == "text" \in b.has

IsToolBlock_PlainElse(b) == TRUE

IsToolBlock_AllowedOnly(b) == "name" \in b.has /\ b.name \in allowedTools("simple")

IsToolBlock(b) == "name" \in b.has

RECURSIVE SimpleBlocks(_, _)
SimpleBlocks(c, cnt) ==
  IF c = <<>> THEN [count |-> cnt, lines |-> <<>>]
  ELSE LET b == Head(c)
       IN IF IsTextBlock(b)
            THEN LET r == SimpleBlocks(Tail(c), cnt)
                 IN [count |-> r.count, lines |-> <<Line("text", b.text, "", 0)>> \o r.lines]
          ELSE IF IsToolBlock(b)
            THEN LET r == SimpleBlocks(Tail(c), cnt + 1)
                 IN [count |-> r.count,
                     lines |-> <<Line("tool", b.name, "", cnt + 1)>> \o r.lines]
          ELSE SimpleBlocks(Tail(c), cnt)

SimpleResultLines(m, cnt) ==
  IF m.subtype = "success"
    THEN <<Line("complete", "", "", 0), Line("toolsused", "", "", cnt),
           Line("cost", "", "", toFixed4(m.total_cost_usd))>>
    ELSE <<Line("failed", m.subtype, "", 0)>>

SimpleOnMessage(cnt, m) ==
  LET a == IF m.type = "assistant" THEN SimpleBlocks(m.content, cnt)
           ELSE [count |-> cnt, lines |-> <<>>]
  IN [count |-> a.count,
      lines |-> a.lines \o (IF m.type = "result" THEN SimpleResultLines(m, a.count) ELSE <<>>)]

(* The loop body of reviewCode never leaves the loop, whatever the count. *)
SimpleLoopContinues_TurnLimit(cnt, m) == cnt <= maxTurns

SimpleLoopContinues(cnt, m) == TRUE

(* ------------------------------------------ advanced script: runCodeReview *)
outputFormat == [type |-> "json_schema", schema |-> "reviewSchema"]

getToolSummary(block) ==
  LET input == block.input
  IN CASE block.name = "Read" -> Or(input.file_path, "file")
       [] block.name = "Glob" -> Or(input.pattern, "pattern")
       [] block.name = "Grep" -> "\"" \o input.pattern \o "\" in " \o Or(input.path, ".")
       [] block.name = "Bash" -> Or(input.command, Or(input.cmd, ""))
       [] OTHER -> ""

RECURSIVE AdvancedBlockLines_TaskAlsoTool(_)
AdvancedBlockLines_TaskAlsoTool(c) ==
  IF c = <<>> THEN <<>>
  ELSE LET b == Head(c)
           l == IF "name" \in b.has
                  THEN (IF b.name = "Task"
                          THEN <<Line("delegate", b.input.subagent_type, "", 0)>>
                          ELSE <<>>)
                       \o <<Line("tool", b.name, getToolSummary(b), 0)>>
                  ELSE <<>>
       IN l \o AdvancedBlockLines_TaskAlsoTool(Tail(c))

RECURSIVE AdvancedBlockLines(_)
AdvancedBlockLines(c) ==
  IF c = <<>> THEN <<>>
  ELSE LET b == Head(c)
           l == IF "name" \in b.has
                  THEN IF b.name = "Task"
                         THEN <<Line("delegate", b.input.subagent_type, "", 0)>>
                         ELSE <<Line("tool", b.name, getToolSummary(b), 0)>>
                  ELSE <<>>
       IN l \o AdvancedBlockLines(Tail(c))

AdvancedAccepts_SubtypeOnly(m) == m.subtype = "success"

AdvancedAccepts(m) == m.subtype = "success" /\ TruthyValue(m.structured_output)

AdvancedResultLines_FixedReason(m) ==
  IF AdvancedAccepts(m)
    THEN <<Line("complete", "", "", 0), Line("cost", "", "", toFixed4(m.total_cost_usd))>>
    ELSE <<Line("failed", "error", "", 0)>>

AdvancedResultLines_SuccessBySubtype(m) ==
  IF m.subtype = "success"
    THEN <<Line("complete", "", "", 0), Line("cost", "", "", toFixed4(m.total_cost_usd))>>
    ELSE <<Line("failed", m.subtype, "", 0)>>

AdvancedResultLines(m) ==
  IF AdvancedAccepts(m)
    THEN <<Line("complete", "", "", 0), Line("cost", "", "", toFixed4(m.total_cost_usd))>>
    ELSE <<Line("failed", m.subtype, "", 0)>>

(* A handler that also records a warning for a tool outside allowedTools. *)
AdvancedLines_WarnUnknown(m) ==
  (IF m.type = "assistant"
     THEN AdvancedBlockLines(m.content)
          \o (IF \E i \in 1..Len(m.content) :
                    "name" \in m.content[i].has /\ m.content[i].name \notin allowedTools("advanced")
                THEN <<Line("warning", "", "", 0)>> ELSE <<>>)
     ELSE <<>>)
  \o (IF m.type = "result" THEN AdvancedResultLines(m) ELSE <<>>)

AdvancedLines(m) ==
  (IF m.type = "assistant" THEN AdvancedBlockLines(m.content) ELSE <<>>)
  \o (IF m.type = "result" THEN AdvancedResultLines(m) ELSE <<>>)

AdvancedResult_ResetOnFailure(res, m) ==
  IF m.type = "result"
    THEN (IF AdvancedAccepts(m) THEN m.structured_output ELSE NullResult)
    ELSE res

AdvancedResult(res, m) ==
  IF m.type = "result" /\ AdvancedAccepts(m) THEN m.structured_output ELSE res

(* The loop body of runCodeReview never leaves the loop. *)
AdvancedLoopContinues_BreakOnResult(res, m) == m.type # "result"

AdvancedLoopContinues(res, m) == TRUE

(* main: `if (result)` decides between printResults and exit(1). *)
MainTakesResult_NotUndefined(res) == res.kind # "undefined"

MainTakesResult(res) == TruthyValue(res)

(* ---------------------------------------- advanced script: printResults *)
SeverityOrder_LowFirst == <<"low", "medium", "high", "critical">>

SeverityOrder == <<"critical", "high", "medium", "low">>

SeverityIcon(sev) ==
  IF sev = "critical" THEN "red"
  ELSE IF sev = "high" THEN "orange"
  ELSE IF sev = "medium" THEN "yellow" ELSE "green"

BySeverity(issues, sev) == SelectSeq(issues, LAMBDA i : i.severity = sev)

RECURSIVE IssueLines(_)
IssueLines(issues) ==
  IF issues = <<>> THEN <<>>
  ELSE <<Line("issue", Head(issues).category, Head(issues).description, 0)>>
         \o IssueLines(Tail(issues))

RECURSIVE GroupLines(_, _)
GroupLines(issues, order) ==
  IF order = <<>> THEN <<>>
  ELSE LET sev == Head(order)
           grp == BySeverity(issues, sev)
           l == IF Len(grp) = 0 THEN <<>>
                ELSE <<Line("group", sev, SeverityIcon(sev), Len(grp))>> \o IssueLines(grp)
       IN l \o GroupLines(issues, Tail(order))

(* result.issues.length on a payload without issues is a TypeError. *)
PrintResultsThrows(r) == "issues" \notin r.has

PrintResultsLines(r) ==
  <<Line("results", "", "", 0), Line("score", "", "", r.overallScore)>>
  \o (IF PrintResultsThrows(r) THEN <<>>
      ELSE <<Line("issuesfound", "", "", Len(r.issues)), Line("summary", r.summary, "", 0)>>
             \o GroupLines(r.issues, SeverityOrder))

(* ------------------------------------------------- the .catch handlers *)
CatchLines_Silent(msg) == <<>>

CatchLines_AlwaysTip(msg) == <<ErrLine(msg), Line("tip", "", "", 0)>>

CatchLines(msg) ==
  <<ErrLine(msg)>>
  \o (IF Includes(msg, "ANTHROPIC_API_KEY") THEN <<Line("tip", "", "", 0)>> ELSE <<>>)

(* ------------------------------------------------------------------ Init *)
Scripts == {"basic", "simple", "advanced"}

(* The scripts call their consumer function once: there is no second call. *)
NoRun == [pc |-> "none", events |-> <<>>, out |-> <<>>, toolCallCount |-> 0, result |-> NullResult]

(* A call at entry: `let toolCallCount = 0`, `let result = null`. *)
FreshRun == [NoRun EXCEPT !.pc = "loop"]

Init ==
  /\ script \in Scripts
  /\ pc = "loop"
  /\ events = <<>>
  /\ out = <<>>
  /\ toolCallCount = 0
  /\ result = NullResult
  /\ exitCode = -1
  /\ other = NoRun
  /\ abortRequested = FALSE

(* --------------------------------------------------------------- actions *)
RECURSIVE TotalBlocks(_)
TotalBlocks(es) == IF es = <<>> THEN 0 ELSE Len(Head(es).content) + TotalBlocks(Tail(es))

(* One iteration of main's for-await loop in the basic script. *)
BasicMainStep(m) ==
  /\ script = "basic"
  /\ pc = "loop"
  /\ events' = Append(events, m)
  /\ out' = out \o BasicLines(m)
  /\ pc' = IF BasicLoopContinues(m) THEN "loop" ELSE "returned"
  /\ UNCHANGED <<script, toolCallCount, result, exitCode, other, abortRequested>>

(* A handler that redraws the console instead of appending to it. *)
ReviewCodeStep_Redraw(m) ==
  /\ script = "simple"
  /\ pc = "loop"
  /\ events' = Append(events, m)
  /\ LET r == SimpleOnMessage(toolCallCount, m)
     IN /\ toolCallCount' = r.count
        /\ out' = r.lines
        /\ pc' = IF SimpleLoopContinues(r.count, m) THEN "loop" ELSE "returned"
  /\ UNCHANGED <<script, result, exitCode, other, abortRequested>>

(* One iteration of reviewCode's for-await loop in the simple script. *)
ReviewCodeStep(m) ==
  /\ script = "simple"
  /\ pc = "loop"
  /\ events' = Append(events, m)
  /\ LET r == SimpleOnMessage(toolCallCount, m)
     IN /\ toolCallCount' = r.count
        /\ out' = out \o r.lines
        /\ pc' = IF SimpleLoopContinues(r.count, m) THEN "loop" ELSE "returned"
  /\ UNCHANGED <<script, result, exitCode, other, abortRequested>>

(* A loop that looks at the request before it handles a message. *)
RunCodeReviewStep_StopOnAbort(m) ==
  /\ script = "advanced"
  /\ pc = "loop"
  /\ events' = Append(events, m)
  /\ out' = IF abortRequested THEN out ELSE out \o AdvancedLines(m)
  /\ result' = IF abortRequested THEN result ELSE AdvancedResult(result, m)
  /\ pc' = IF abortRequested THEN "returned" ELSE "loop"
  /\ UNCHANGED <<script, toolCallCount, exitCode, other, abortRequested>>

(* One iteration of runCodeReview's for-await loop in the advanced script. *)
RunCodeReviewStep(m) ==
  /\ script = "advanced"
  /\ pc = "loop"
  /\ events' = Append(events, m)
  /\ out' = out \o AdvancedLines(m)
  /\ result' = AdvancedResult(result, m)
  /\ pc' = IF AdvancedLoopContinues(result', m) THEN "loop" ELSE "returned"
  /\ UNCHANGED <<script, toolCallCount, exitCode, other, abortRequested>>

(* The source closes: the loop ends and the consumer function returns. *)
SourceClose ==
  /\ pc = "loop"
  /\ pc' = "returned"
  /\ UNCHANGED <<script, events, out, toolCallCount, result, exitCode, other, abortRequested>>

(* A script that stays alive after its consumer function has returned. *)
PlainExit_Hang ==
  /\ pc = "returned"
  /\ script \in {"basic", "simple"}
  /\ UNCHANGED vars

(* basic and simple: the promise resolves, nothing is left to run. *)
PlainExit ==
  /\ pc = "returned"
  /\ script \in {"basic", "simple"}
  /\ pc' = "exited"
  /\ exitCode' = 0
  /\ UNCHANGED <<script, events, out, toolCallCount, result, other, abortRequested>>

AdvancedMainAfter_NoExit ==
  /\ pc = "returned"
  /\ script = "advanced"
  /\ pc' = "exited"
  /\ IF TruthyValue(result)
       THEN IF PrintResultsThrows(result)
              THEN /\ out' = out \o PrintResultsLines(result) \o CatchLines(TypeErrorMessage)
                   /\ exitCode' = 1
              ELSE /\ out' = out \o PrintResultsLines(result)
                   /\ exitCode' = 0
       ELSE /\ out' = out \o <<Line("noresults", "", "", 0)>>
            /\ exitCode' = 0
  /\ UNCHANGED <<script, events, toolCallCount, result, other, abortRequested>>

(* advanced: main after `await runCodeReview(directory)`. *)
AdvancedMainAfter ==
  /\ pc = "returned"
  /\ script = "advanced"
  /\ pc' = "exited"
  /\ IF MainTakesResult(result)
       THEN IF PrintResultsThrows(result)
              THEN /\ out' = out \o PrintResultsLines(result) \o CatchLines(TypeErrorMessage)
                   /\ exitCode' = 1
              ELSE /\ out' = out \o PrintResultsLines(result)
                   /\ exitCode' = 0
       ELSE /\ out' = out \o <<Line("noresults", "", "", 0)>>
            /\ exitCode' = 1
  /\ UNCHANGED <<script, events, toolCallCount, result, other, abortRequested>>

SourceFault_ExitZero(msg) ==
  /\ pc = "loop"
  /\ pc' = "exited"
  /\ out' = out \o CatchLines(msg)
  /\ exitCode' = 0
  /\ UNCHANGED <<script, events, toolCallCount, result, other, abortRequested>>

(* The source faults: the for-await rejects and the .catch handler runs. *)
SourceFault(msg) ==
  /\ pc = "loop"
  /\ pc' = "exited"
  /\ out' = out \o CatchLines(msg)
  /\ exitCode' = 1
  /\ UNCHANGED <<script, events, toolCallCount, result, other, abortRequested>>

Stream == Messages(MaxBlocks)

Deliverable(m) ==
  /\ Len(events) < MaxEvents
  /\ TotalBlocks(events) + Len(m.content) <= MaxBlocks

Next ==
  \/ script = "basic" /\ pc = "loop" /\ \E m \in Stream : Deliverable(m) /\ BasicMainStep(m)
  \/ script = "simple" /\ pc = "loop" /\ \E m \in Stream : Deliverable(m) /\ ReviewCodeStep(m)
  \/ script = "advanced" /\ pc = "loop" /\ \E m \in Stream : Deliverable(m) /\ RunCodeReviewStep(m)
  \/ SourceClose
  \/ PlainExit
  \/ AdvancedMainAfter
  \/ \E msg \in ErrorMessages : SourceFault(msg)

Spec == Init /\ [][Next]_vars

(* A source that sends nothing but single tool invocations, as many as it  *)
(* likes: the stream on which the turn limit matters.                      *)
TurnMsg == AssistantMsg(<<ReadBlock>>)

TurnStreamCap == maxTurns + 2

InitTurns == Init /\ script \in {"simple", "advanced"}

NextTurns ==
  \/ Len(events) < TurnStreamCap /\ ReviewCodeStep(TurnMsg)
  \/ Len(events) < TurnStreamCap /\ RunCodeReviewStep(TurnMsg)
  \/ SourceClose
  \/ PlainExit
  \/ AdvancedMainAfter

SpecTurns == InitTurns /\ [][NextTurns]_vars

(* A well-formed session of reviewCode, which declares no output format:   *)
(* the init message, then tool invocations one per assistant message, then *)
(* a success result with its text and cost, then the source closes.        *)
MaxToolEvents == 2

ScenarioTools == {ReadBlock, GlobBlock, GrepBlock}

ScenarioTexts == {"done", "no issues"}

ScenarioCosts == {10000, 12355}

InitScenario == Init /\ script = "simple"

ScenarioEnded == events # <<>> /\ Last(events).type = "result"

NextScenario ==
  \/ events = <<>> /\ ReviewCodeStep(InitMsg)
  \/ /\ events # <<>>
     /\ ~ScenarioEnded
     /\ Len(events) <= MaxToolEvents
     /\ \E b \in ScenarioTools : ReviewCodeStep(AssistantMsg(<<b>>))
  \/ /\ events # <<>>
     /\ ~ScenarioEnded
     /\ \E t \in ScenarioTexts, c \in ScenarioCosts : ReviewCodeStep(SuccessMsg(t, c))
  \/ ScenarioEnded /\ SourceClose
  \/ PlainExit

SpecScenario == InitScenario /\ [][NextScenario]_vars

(* runCodeReview receives one success result whose structured_output is    *)
(* any schema-valid review of up to MaxIssues issues, and main prints it.  *)
MaxIssues == 3

PrintIssues == {Issue(sev, "bug", d) : sev \in Range(Severities), d \in {"d1", "d2"}}

PrintPayloads ==
  {[kind |-> "object", has |-> {"issues", "summary", "overallScore"},
    issues |-> is, summary |-> "review", overallScore |-> 70] :
     is \in UNION {[1..n -> PrintIssues] : n \in 0..MaxIssues}}

InitPrint == Init /\ script = "advanced"

NextPrint ==
  \/ events = <<>> /\ \E p \in PrintPayloads : RunCodeReviewStep(ResultMsg("success", p, 342))
  \/ events # <<>> /\ SourceClose
  \/ AdvancedMainAfter

SpecPrint == InitPrint /\ [][NextPrint]_vars

(* The same run on payloads as runCodeReview accepts them: the cast to     *)
(* ReviewResult is unchecked, so an issue may carry a severity that is     *)
(* none of the four.                                                       *)
UncheckedIssues == PrintIssues \cup {Issue("info", "bug", "d1")}

UncheckedPayloads ==
  {[kind |-> "object", has |-> {"issues", "summary", "overallScore"},
    issues |-> is, summary |-> "review", overallScore |-> 70] :
     is \in UNION {[1..n -> UncheckedIssues] : n \in 0..MaxIssues}}

NextUnchecked ==
  \/ events = <<>> /\ \E p \in UncheckedPayloads : RunCodeReviewStep(ResultMsg("success", p, 342))
  \/ events # <<>> /\ SourceClose
  \/ AdvancedMainAfter

SpecUnchecked == InitPrint /\ [][NextUnchecked]_vars

(* Two calls of reviewCode, or of runCodeReview, in one process, each with *)
(* its own stream; their loop iterations interleave in any order.          *)
MaxTwoEvents == 2

TwoStream ==
  {AssistantMsg(<<ReadBlock>>), AssistantMsg(<<TextBlock, GrepBlock>>),
   ResultMsg("success", ValidPayload, 342), ResultMsg("error_max_turns", NoPayload, 342)}

(* The locals declared inside the function, had they been module-level. *)
OtherStep_SharedLocals(m) ==
  /\ other.pc = "loop"
  /\ script \in {"simple", "advanced"}
  /\ LET r == SimpleOnMessage(toolCallCount, m)
         cnt == IF script = "simple" THEN r.count ELSE toolCallCount
         res == IF script = "advanced" THEN AdvancedResult(result, m) ELSE result
     IN /\ toolCallCount' = cnt
        /\ result' = res
        /\ other' = [other EXCEPT
                        !.events = Append(@, m),
                        !.out = @ \o (IF script = "simple" THEN r.lines ELSE AdvancedLines(m)),
                        !.toolCallCount = cnt,
                        !.result = res]
  /\ UNCHANGED <<script, pc, events, out, exitCode, abortRequested>>

(* One loop iteration of the second call, on its own locals. *)
OtherStep(m) ==
  /\ other.pc = "loop"
  /\ script \in {"simple", "advanced"}
  /\ LET r == SimpleOnMessage(other.toolCallCount, m)
     IN other' = [other EXCEPT
                    !.events = Append(@, m),
                    !.out = @ \o (IF script = "simple" THEN r.lines ELSE AdvancedLines(m)),
                    !.toolCallCount = IF script = "simple" THEN r.count ELSE @,
                    !.result = IF script = "advanced" THEN AdvancedResult(@, m) ELSE @]
  /\ UNCHANGED <<script, pc, events, out, toolCallCount, result, exitCode, abortRequested>>

(* The second call's source closes and the call returns. *)
OtherClose ==
  /\ other.pc = "loop"
  /\ other' = [other EXCEPT !.pc = "returned"]
  /\ UNCHANGED <<script, pc, events, out, toolCallCount, result, exitCode, abortRequested>>

InitTwo ==
  /\ script \in {"simple", "advanced"}
  /\ pc = "loop"
  /\ events = <<>>
  /\ out = <<>>
  /\ toolCallCount = 0
  /\ result = NullResult
  /\ exitCode = -1
  /\ other = FreshRun
  /\ abortRequested = FALSE

NextTwo ==
  \/ Len(events) < MaxTwoEvents /\ \E m \in TwoStream : ReviewCodeStep(m)
  \/ Len(events) < MaxTwoEvents /\ \E m \in TwoStream : RunCodeReviewStep(m)
  \/ SourceClose
  \/ Len(other.events) < MaxTwoEvents /\ \E m \in TwoStream : OtherStep(m)
  \/ OtherClose

SpecTwo == InitTwo /\ [][NextTwo]_vars

(* runCodeReview while the caller may ask for the run to be stopped.  The  *)
(* options passed to query() hold no abortController and the loop reads no *)
(* signal, so the request is an event of the environment only.             *)
CancelRequest ==
  /\ pc = "loop"
  /\ ~abortRequested
  /\ abortRequested' = TRUE
  /\ UNCHANGED <<script, pc, events, out, toolCallCount, result, exitCode, other>>

InitCancel == Init /\ script = "advanced"

NextCancel ==
  \/ pc = "loop" /\ \E m \in TwoStream : Deliverable(m) /\ RunCodeReviewStep(m)
  \/ SourceClose
  \/ AdvancedMainAfter
  \/ \E msg \in ErrorMessages : SourceFault(msg)
  \/ CancelRequest

SpecCancel == InitCancel /\ [][NextCancel]_vars

(* The three scripts on a finite stream, with the scheduling the runtime   *)
(* gives them: the source, while awaited, eventually delivers, closes or   *)
(* faults, and a script whose consumer function has returned runs on to    *)
(* its end.                                                                *)
LiveStream == {InitMsg} \cup TwoStream

SourceMoves ==
  \/ \E m \in LiveStream : Deliverable(m) /\ BasicMainStep(m)
  \/ \E m \in LiveStream : Deliverable(m) /\ ReviewCodeStep(m)
  \/ \E m \in LiveStream : Deliverable(m) /\ RunCodeReviewStep(m)
  \/ SourceClose
  \/ \E msg \in ErrorMessages : SourceFault(msg)

NextLive ==
  \/ pc = "loop" /\ \E m \in LiveStream : Deliverable(m) /\ BasicMainStep(m)
  \/ pc = "loop" /\ \E m \in LiveStream : Deliverable(m) /\ ReviewCodeStep(m)
  \/ pc = "loop" /\ \E m \in LiveStream : Deliverable(m) /\ RunCodeReviewStep(m)
  \/ SourceClose
  \/ \E msg \in ErrorMessages : SourceFault(msg)
  \/ PlainExit
  \/ AdvancedMainAfter

SpecLive ==
  /\ Init
  /\ [][NextLive]_vars
  /\ WF_vars(SourceMoves)
  /\ WF_vars(PlainExit)
  /\ WF_vars(AdvancedMainAfter)

(***************************************************************************)
(* What the stream held and what the consumer reported, read off the       *)
(* stream history and the console.                                         *)
(***************************************************************************)

RECURSIVE AllBlocks(_)
AllBlocks(es) == IF es = <<>> THEN <<>> ELSE Head(es).content \o AllBlocks(Tail(es))

(* The tool invocations of a stream, in arrival order. *)
ToolUses(es) == SelectSeq(AllBlocks(es), LAMBDA b : b.type = "tool_use")

(* The number of tool invocations of a stream. *)
ToolUseCount(es) ==
  Cardinality(UNION {{<<i, j>> : j \in {j \in 1..Len(es[i].content) :
                                          es[i].content[j].type = "tool_use"}} :
                     i \in 1..Len(es)})

ResultsIn(es) == SelectSeq(es, LAMBDA m : m.type = "result")

InitIndexes == {i \in 1..Len(events) : events[i].type = "system" /\ events[i].subtype = "init"}

IsStatusLine(l) == l.k \in {"done", "complete", "failed"}

StatusLines(o) == SelectSeq(o, IsStatusLine)

LinesOfKind(o, k) == SelectSeq(o, LAMBDA l : l.k = k)

StatusOfLine(l) ==
  IF l.k = "complete" \/ (l.k = "done" /\ l.b = "ok")
    THEN [kind |-> "Success", reason |-> ""]
    ELSE [kind |-> "Failure", reason |-> l.a]

(* The session outcome as the loop has announced it so far. *)
Announced ==
  IF StatusLines(out) = <<>> THEN [kind |-> "Pending", reason |-> ""]
  ELSE StatusOfLine(Last(StatusLines(out)))

(* The outcome one result message stands for, by script. *)
StatusOfMessage(sc, m) ==
  IF m.subtype = "success" /\ (sc = "advanced" => m.structured_output.kind = "object")
    THEN [kind |-> "Success", reason |-> ""]
    ELSE [kind |-> "Failure", reason |-> m.subtype]

ErrorRaised == \E i \in 1..Len(out) : out[i].k = "error"

Faulted == \E i \in 1..Len(out) : out[i].k = "error" /\ out[i].msg \in ErrorMessages

FailureReported ==
  \/ exitCode = 1
  \/ Announced.kind = "Failure"
  \/ \E i \in 1..Len(out) : out[i].k \in {"noresults", "error", "failed"}

EventAfterTerminal == \E i \in 1..(Len(events) - 1) : events[i].type = "result"

(* ------------------------------------------------------------------- C1 *)
(* C1, as stated, for reviewCode and runCodeReview: once a result event    *)
(* has been recorded, an event that arrives after it is not handled; it    *)
(* raises an error and the loop is left.                                   *)
C1_Original ==
  (script \in {"simple", "advanced"} /\ EventAfterTerminal) => (pc # "loop" /\ ErrorRaised)

(* C1, amended: every event the source delivers, also one that arrives     *)
(* after a result event, is handled and leaves the consumer in its loop;   *)
(* handling raises no error, and every result message, the first or a      *)
(* later one, prints its own status line.                                  *)
C1_Amended ==
  [][events' # events =>
       /\ pc' = "loop"
       /\ ~ErrorRaised'
       /\ Len(StatusLines(out')) = Len(ResultsIn(events'))]_vars

C1_Witness ==
  /\ pc = "loop"
  /\ script \in {"simple", "advanced"}
  /\ Len(events) = 2
  /\ events[1].type = "result"
  /\ ToolUses(<<events[2]>>) # <<>>
  /\ out # <<>>
  /\ Last(out).k \in {"tool", "delegate"}

(* ------------------------------------------------------------------- C2 *)
(* C2, as stated, for runCodeReview: once the outcome has left Pending, no *)
(* later event changes it.                                                 *)
C2_Original ==
  [][(script = "advanced" /\ Announced.kind # "Pending") => Announced' = Announced]_vars

(* C2, amended: the outcome starts Pending, never returns to Pending once  *)
(* a result message has set it, and changes only when a result message is  *)
(* handled; each result message, the first or a later one, sets it to the  *)
(* outcome that message stands for.                                        *)
C2_Amended ==
  /\ Announced.kind = "Pending"
  /\ [][/\ Announced.kind # "Pending" => Announced'.kind # "Pending"
        /\ Announced' # Announced =>
             /\ events' # events
             /\ Last(events').type = "result"
        /\ (events' # events /\ Last(events').type = "result") =>
             Announced' = StatusOfMessage(script, Last(events'))]_vars

C2_Witness ==
  /\ script = "advanced"
  /\ Len(StatusLines(out)) = 2
  /\ StatusOfLine(StatusLines(out)[1]).kind = "Success"
  /\ StatusOfLine(StatusLines(out)[2]).kind = "Failure"

(* ------------------------------------------------------------------ C10 *)
RECURSIVE ToolsUsedFigures(_, _)
(* The tool count at each success result of es, given n invocations before. *)
ToolsUsedFigures(es, n) ==
  IF es = <<>> THEN <<>>
  ELSE LET k == n + Len(ToolUses(<<Head(es)>>))
       IN (IF Head(es).type = "result" /\ Head(es).subtype = "success" THEN <<k>> ELSE <<>>)
            \o ToolsUsedFigures(Tail(es), k)

(* C10: in reviewCode, after N tool invocations have arrived the counter   *)
(* is N, the numbered tool lines are the N invocations in arrival order,   *)
(* and every "Tools used" figure is the number of invocations received up  *)
(* to that result message.                                                 *)
C10_ToolCount ==
  script = "simple" =>
    LET uses == ToolUses(events)
        toolLines == LinesOfKind(out, "tool")
        figures == LinesOfKind(out, "toolsused")
        expected == ToolsUsedFigures(events, 0)
    IN /\ toolCallCount = Len(uses)
       /\ Len(toolLines) = Len(uses)
       /\ \A i \in 1..Len(uses) : toolLines[i].a = uses[i].name /\ toolLines[i].n = i
       /\ Len(figures) = Len(expected)
       /\ \A j \in 1..Len(expected) : figures[j].n = expected[j]

C10_Witness ==
  /\ script = "simple"
  /\ toolCallCount = 2
  /\ \E i \in 1..Len(out) : out[i].k = "toolsused" /\ out[i].n = 2

(* ------------------------------------------------------------------- C3 *)
SchemaDeclared == outputFormat.type = "json_schema"

(* C3, as stated, for runCodeReview: result is populated if and only if    *)
(* the outcome is Success, a schema was declared and the last result event *)
(* carried a payload that satisfies reviewSchema.                          *)
C3_Original ==
  script = "advanced" =>
    (result.kind = "object" <=>
       /\ Announced.kind = "Success"
       /\ SchemaDeclared
       /\ ResultsIn(events) # <<>>
       /\ SatisfiesReviewSchema(Last(ResultsIn(events)).structured_output))

(* ------------------------------------------------------------------- C4 *)
LastIsInvalidSuccess ==
  /\ events # <<>>
  /\ Last(events).type = "result"
  /\ Last(events).subtype = "success"
  /\ Last(events).structured_output.kind = "object"
  /\ ~SatisfiesReviewSchema(Last(events).structured_output)

(* C4, as stated, for runCodeReview: a success result whose payload lacks  *)
(* a required field of the declared schema yields Failure, never Success.  *)
C4_Original ==
  (script = "advanced" /\ SchemaDeclared /\ LastIsInvalidSuccess) => Announced.kind = "Failure"

(* ------------------------------------------------------------------- C5 *)
FirstIsResult == events # <<>> /\ events[1].type = "result"

(* C5, as stated: a stream whose first event is a success result, with no  *)
(* initialization event before it, yields Failure and never Success.       *)
C5_Original ==
  (FirstIsResult /\ events[1].subtype = "success") => Announced.kind = "Failure"

(* C5, amended: a result event is handled the same whether or not an       *)
(* initialization event came before it: when the first event of a stream   *)
(* is a result message, the first status reported is the outcome that      *)
(* message stands for (Success for subtype success; in the advanced script *)
(* only with a truthy structured_output), and no error is raised.          *)
C5_Amended ==
  FirstIsResult =>
    /\ StatusLines(out) # <<>>
    /\ StatusOfLine(StatusLines(out)[1]) = StatusOfMessage(script, events[1])
    /\ pc \in {"loop", "returned"} => ~ErrorRaised

C5_Witness ==
  /\ FirstIsResult
  /\ InitIndexes = {}
  /\ script = "basic"
  /\ Announced.kind = "Success"
  /\ pc = "loop"

(* ------------------------------------------------------------------- C6 *)
InitMisplaced == \E i \in InitIndexes : i > 1

(* C6, as stated: an initialization event that is not the first event of   *)
(* the session (a second one, or one after another event) is rejected with *)
(* an error.                                                               *)
C6_Original == InitMisplaced => (pc # "loop" /\ ErrorRaised)

(* C6, amended: an initialization event is handled the same wherever it    *)
(* occurs: the basic script prints the session line once for every         *)
(* initialization event, a repeated or late one included, the simple and   *)
(* advanced scripts print nothing for it, and none raises an error.        *)
C6_Amended ==
  /\ Len(LinesOfKind(out, "init")) = IF script = "basic" THEN Cardinality(InitIndexes) ELSE 0
  /\ pc \in {"loop", "returned"} => ~ErrorRaised

C6_Witness ==
  /\ script = "basic"
  /\ pc = "loop"
  /\ events = <<InitMsg, InitMsg>>
  /\ Len(LinesOfKind(out, "init")) = 2

(* ------------------------------------------------------------------- C7 *)
EmptyClosed == events = <<>> /\ pc = "exited" /\ ~Faulted

(* C7, as stated, for the simple and advanced scripts: a stream that       *)
(* closes without any event is reported as a failure.                      *)
C7_Original == (script \in {"simple", "advanced"} /\ EmptyClosed) => FailureReported

(* C7, amended: only the advanced script reports an empty stream as a      *)
(* failure: runCodeReview returns null and main prints "No results         *)
(* returned" and exits with status 1; the basic and simple scripts print   *)
(* nothing and end with status 0.                                          *)
C7_Amended ==
  EmptyClosed =>
    IF script = "advanced"
      THEN out = <<Line("noresults", "", "", 0)>> /\ exitCode = 1
      ELSE out = <<>> /\ exitCode = 0

C7_Witness == EmptyClosed /\ script = "advanced" /\ exitCode = 1

(* ------------------------------------------------------------------- C8 *)
ClosedEarly ==
  /\ events # <<>>
  /\ ResultsIn(events) = <<>>
  /\ pc \in {"returned", "exited"}
  /\ ~Faulted

(* C8, as stated, for reviewCode and runCodeReview: a stream that produced *)
(* events and closed without a result event is reported as a failure,      *)
(* decided by the loop when the source closes.                             *)
C8_Original == (script \in {"simple", "advanced"} /\ ClosedEarly) => FailureReported

(* C8, amended: when a stream that produced events closes without a result *)
(* event, the loop ends without reporting anything; only main of the       *)
(* advanced script, finding the null returned by runCodeReview, prints "No *)
(* results returned" and exits with status 1, while the basic and simple   *)
(* scripts end with status 0 and no failure report.                        *)
C8_Amended ==
  ClosedEarly =>
    /\ result = NullResult
    /\ pc = "returned" => ~FailureReported
    /\ (pc = "exited" /\ script = "advanced") =>
         /\ exitCode = 1
         /\ Last(out) = Line("noresults", "", "", 0)
         /\ Len(LinesOfKind(out, "noresults")) = 1
         /\ ~ErrorRaised
    /\ (pc = "exited" /\ script # "advanced") => (exitCode = 0 /\ ~FailureReported)

C8_Witness ==
  /\ ClosedEarly
  /\ pc = "exited"
  /\ script = "advanced"
  /\ ToolUses(events) # <<>>
  /\ exitCode = 1

(* ------------------------------------------------------------------- C9 *)
OverTurnLimit == ToolUseCount(events) > maxTurns /\ ResultsIn(events) = <<>>

(* C9, as stated, for reviewCode: once more than maxTurns tool invocations *)
(* have been seen without a result event, the consumer has stopped         *)
(* iterating by itself and reported a failure.                             *)
C9_Original ==
  (script = "simple" /\ OverTurnLimit) => (pc # "loop" /\ FailureReported)

(* C9, amended: the consumer applies no turn limit of its own (maxTurns is *)
(* only an option handed to the source): it handles every tool invocation  *)
(* the source delivers, also beyond maxTurns, stays in its loop, reports   *)
(* no failure, and reviewCode goes on counting.                            *)
C9_Amended ==
  [][events' # events =>
       /\ pc' = "loop"
       /\ ~FailureReported'
       /\ script = "simple" => toolCallCount' = ToolUseCount(events')]_vars

C9_Witness ==
  /\ OverTurnLimit
  /\ pc = "loop"
  /\ script = "simple"
  /\ toolCallCount = maxTurns + 1


(* ------------------------------------------------------------------ C11 *)
IsPrefix(s, t) == Len(s) <= Len(t) /\ SubSeq(t, 1, Len(s)) = s

(* C11: no step modifies, reorders or removes what has been recorded: the  *)
(* tool lines and the text lines printed so far are a prefix of those      *)
(* printed after the step, and toolCallCount never decreases.              *)
C11_AppendOnly ==
  [][/\ IsPrefix(LinesOfKind(out, "tool"), LinesOfKind(out', "tool"))
     /\ IsPrefix(LinesOfKind(out, "text"), LinesOfKind(out', "text"))
     /\ toolCallCount' >= toolCallCount]_vars

C11_Witness ==
  /\ script = "simple"
  /\ Len(events) = 2
  /\ events[1].type = "assistant" /\ events[1].content # <<>>
  /\ events[2].type = "assistant" /\ events[2].content # <<>>
  /\ Len(LinesOfKind(out, "tool")) = 1
  /\ Len(LinesOfKind(out, "text")) = 1
  /\ toolCallCount = 1


(* ------------------------------------------------------------------ C12 *)
(* C12: a result message whose subtype is not success is announced as a    *)
(* failure that carries exactly the subtype of that message, whichever     *)
(* failure subtype the source sends, in every script.                      *)
C12_FailureCarriesSubtype ==
  [][(events' # events /\ Last(events').type = "result" /\ Last(events').subtype # "success")
       => /\ Announced' = [kind |-> "Failure", reason |-> Last(events').subtype]
          /\ Last(events').subtype \in FailureSubtypes]_vars

C12_Witness ==
  /\ script = "advanced"
  /\ Len(events) = 2
  /\ events[1].type = "result" /\ events[1].subtype = "error_max_turns"
  /\ events[2].type = "result" /\ events[2].subtype = "error_during_execution"
  /\ Announced = [kind |-> "Failure", reason |-> "error_during_execution"]


(* ------------------------------------------------------------------ C13 *)
(* C13, as stated, its failure half: a script that has announced a failure *)
(* exits with a non-zero status.                                           *)
C13_Original == (pc = "exited" /\ Announced.kind = "Failure") => exitCode # 0

(* The success results whose structured_output is truthy, in arrival order. *)
AcceptedResults ==
  SelectSeq(events, LAMBDA m : m.type = "result" /\ m.subtype = "success"
                                 /\ m.structured_output.kind = "object")

(* C13, amended: the basic and the simple script exit with status 1 when   *)
(* the source faults and with status 0 otherwise, whatever outcome they    *)
(* announced; the advanced script exits with status 0 exactly when the     *)
(* source did not fault, some success result carried a truthy              *)
(* structured_output and the last such payload has an issues list, and     *)
(* with status 1 otherwise.                                                *)
C13_Amended ==
  pc = "exited" =>
    /\ exitCode \in {0, 1}
    /\ script \in {"basic", "simple"} => (exitCode = 0 <=> ~Faulted)
    /\ script = "advanced" =>
         (exitCode = 0 <=> /\ ~Faulted
                           /\ AcceptedResults # <<>>
                           /\ "issues" \in Last(AcceptedResults).structured_output.has)

C13_Witness ==
  /\ script = "simple"
  /\ pc = "exited"
  /\ Len(events) = 2
  /\ Last(events).type = "result" /\ Last(events).subtype \in FailureSubtypes
  /\ Announced.kind = "Failure"
  /\ exitCode = 0


(* ------------------------------------------------------------------ C14 *)
(* C14, as stated, for reviewCode and runCodeReview: nothing is thrown     *)
(* past the consumer function, so a run ends only after the function has   *)
(* returned to its caller.                                                 *)
C14_Original ==
  [][(script \in {"simple", "advanced"} /\ pc' = "exited") => pc = "returned"]_vars

(* C14, amended: a fault of the event source is thrown out of the consumer *)
(* function: the run goes from the loop straight to the .catch handler,    *)
(* which prints the error once and exits with status 1; the fault is not   *)
(* turned into an outcome, so the announced outcome, the result and the    *)
(* tool count stay as they were.                                           *)
C14_Amended ==
  [][(pc = "loop" /\ pc' = "exited") =>
       /\ ~Faulted /\ Faulted'
       /\ Len(LinesOfKind(out', "error")) = 1
       /\ exitCode' = 1
       /\ Announced' = Announced
       /\ result' = result
       /\ toolCallCount' = toolCallCount]_vars

C14_Witness ==
  /\ script = "advanced"
  /\ pc = "exited"
  /\ Faulted
  /\ events # <<>>
  /\ Announced.kind = "Pending"
  /\ LinesOfKind(out, "noresults") = <<>>
  /\ exitCode = 1


(* ------------------------------------------------------------------ C15 *)
(* The tool invocations of a well-formed session: one per event between    *)
(* the init message and the result message.                                *)
ScenarioToolCount == Len(events) - 2

CarriesText(t) == \E i \in 1..Len(out) : out[i].a = t \/ out[i].b = t

(* C15, as stated: a well-formed session of reviewCode ends with Success   *)
(* carrying the text t of the result message, a tool count of k and a      *)
(* total cost equal to the cost c of the result message.                   *)
C15_Original ==
  ScenarioEnded =>
    /\ Announced.kind = "Success"
    /\ CarriesText(Last(events).result)
    /\ Last(LinesOfKind(out, "toolsused")).n = ScenarioToolCount
    /\ Last(LinesOfKind(out, "cost")).n * 100 = Last(events).total_cost_usd

(* C15, amended: a well-formed session of reviewCode announces success,    *)
(* has printed one numbered line per tool invocation, reports a tool count *)
(* of k and the cost c rounded to four decimals, and exits with status 0;  *)
(* the text of the result message appears nowhere in what it reports.      *)
C15_Amended ==
  ScenarioEnded =>
    /\ Announced.kind = "Success"
    /\ Len(StatusLines(out)) = 1
    /\ Len(LinesOfKind(out, "tool")) = ScenarioToolCount
    /\ \A i \in 1..ScenarioToolCount :
         /\ LinesOfKind(out, "tool")[i].n = i
         /\ LinesOfKind(out, "tool")[i].a = events[i + 1].content[1].name
    /\ toolCallCount = ScenarioToolCount
    /\ Last(LinesOfKind(out, "toolsused")).n = ScenarioToolCount
    /\ Last(LinesOfKind(out, "cost")).n = toFixed4(Last(events).total_cost_usd)
    /\ 100 * Last(LinesOfKind(out, "cost")).n - Last(events).total_cost_usd \in -50..49
    /\ ~CarriesText(Last(events).result)
    /\ pc = "exited" => exitCode = 0

C15_Witness ==
  /\ pc = "exited"
  /\ ScenarioToolCount = 2
  /\ events[2].content[1].name = "Read" /\ events[3].content[1].name = "Glob"
  /\ Last(events).total_cost_usd = 12355
  /\ Last(LinesOfKind(out, "cost")).n = 124
  /\ Last(LinesOfKind(out, "toolsused")).n = 2


(* ------------------------------------------------------------------ C16 *)
NamedBlocks(m, isTask) ==
  {i \in 1..Len(m.content) :
     "name" \in m.content[i].has /\ ((m.content[i].name = "Task") <=> isTask)}

Grown(o1, o2, k) == Len(LinesOfKind(o2, k)) - Len(LinesOfKind(o1, k))

(* C16, as stated, for runCodeReview: a tool invocation that names Task    *)
(* is recorded as a delegation and as a tool invocation as well, so both   *)
(* records grow by one entry.                                              *)
C16_Original ==
  [][(script = "advanced" /\ events' # events /\ Last(events').content = <<TaskBlock>>)
       => Grown(out, out', "delegate") = 1 /\ Grown(out, out', "tool") = 1]_vars

(* C16, amended: runCodeReview records a block that names Task as a        *)
(* delegation only, with the target taken from its subagent_type argument, *)
(* and every other named block as a tool invocation only: a message adds   *)
(* one delegation per Task block and one tool line per other named block.  *)
C16_Amended ==
  [][(script = "advanced" /\ events' # events) =>
       LET m == Last(events')
       IN /\ Grown(out, out', "delegate") = Cardinality(NamedBlocks(m, TRUE))
          /\ Grown(out, out', "tool") = Cardinality(NamedBlocks(m, FALSE))
          /\ \A i \in 1..Len(out') :
               out'[i].k = "delegate" => out'[i].a = TaskBlock.input.subagent_type
          /\ \A i \in 1..Len(out') : out'[i].k = "tool" => out'[i].a # "Task"]_vars

C16_Witness ==
  /\ script = "advanced"
  /\ pc = "loop"
  /\ events = <<AssistantMsg(<<TaskBlock>>)>>
  /\ out = <<Line("delegate", "security-scanner", "", 0)>>


(* ------------------------------------------------------------------ C17 *)
ToolLineNames(o) == [i \in 1..Len(LinesOfKind(o, "tool")) |-> LinesOfKind(o, "tool")[i].a]

(* C17, as stated, for reviewCode and runCodeReview: every tool name that  *)
(* has been recorded is in allowedTools or in the tool set declared for    *)
(* the sub-agent.                                                          *)
C17_Original ==
  script \in {"simple", "advanced"} =>
    \A i \in 1..Len(ToolLineNames(out)) :
      ToolLineNames(out)[i] \in allowedTools(script) \cup SubAgentTools

(* The blocks a script reports as tool invocations. *)
ReportedAsTool(sc, b) ==
  IF sc = "advanced" THEN "name" \in b.has /\ b.name # "Task"
  ELSE "text" \notin b.has /\ "name" \in b.has

ReportedNames(sc, es) ==
  LET bs == SelectSeq(AllBlocks(es), LAMBDA b : ReportedAsTool(sc, b))
  IN [i \in 1..Len(bs) |-> bs[i].name]

(* C17, amended: the recorded tool names are the names of the blocks the   *)
(* source delivered, in arrival order, whether or not a name is in         *)
(* allowedTools or in the sub-agent's tool set: no script checks a name    *)
(* against either list.                                                    *)
C17_Amended == ToolLineNames(out) = ReportedNames(script, events)

C17_Witness ==
  /\ script = "simple"
  /\ pc = "loop"
  /\ ToolLineNames(out) = <<"Read", "Bash">>
  /\ "Bash" \notin allowedTools(script) \cup SubAgentTools


(* ------------------------------------------------------------------ C18 *)
(* The message names a tool that is neither allowed nor the delegation     *)
(* primitive.                                                              *)
NamesUnknownTool(sc, m) ==
  \E i \in 1..Len(m.content) :
    "name" \in m.content[i].has /\ m.content[i].name \notin allowedTools(sc) \cup {"Task"}

UnknownToolSeen == \E i \in 1..Len(events) : NamesUnknownTool(script, events[i])

(* C18, as stated, for runCodeReview: once a tool outside allowedTools has *)
(* been invoked, a warning is recorded on the session.                     *)
C18_Original ==
  (script = "advanced" /\ UnknownToolSeen) => LinesOfKind(out, "warning") # <<>>

(* C18, amended: a message that names a tool outside allowedTools is       *)
(* handled like any other: each named block is recorded, nothing else is   *)
(* recorded (no warning, no error), the loop goes on and the announced     *)
(* outcome is left as it was.                                              *)
C18_Amended ==
  [][(script = "advanced" /\ events' # events /\ NamesUnknownTool(script, Last(events'))) =>
       /\ IsPrefix(out, out')
       /\ Len(out') - Len(out) = Cardinality(NamedBlocks(Last(events'), TRUE))
                                   + Cardinality(NamedBlocks(Last(events'), FALSE))
       /\ \A i \in (Len(out) + 1)..Len(out') : out'[i].k \in {"tool", "delegate"}
       /\ \E i \in (Len(out) + 1)..Len(out') :
            out'[i].k = "tool" /\ out'[i].a \notin allowedTools(script)
       /\ pc' = "loop"
       /\ exitCode' = exitCode
       /\ result' = result
       /\ Announced' = Announced]_vars

C18_Witness ==
  /\ script = "advanced"
  /\ pc = "exited"
  /\ events = <<AssistantMsg(<<BashBlock>>), ResultMsg("success", ValidPayload, 342)>>
  /\ out[1] = Line("tool", "Bash", "ls", 0)
  /\ Announced.kind = "Success"
  /\ exitCode = 0


(* ------------------------------------------------------------------ C19 *)
SeverityRank(sev) ==
  IF sev = "critical" THEN 1 ELSE IF sev = "high" THEN 2 ELSE IF sev = "medium" THEN 3 ELSE 4

GroupHeaders == {i \in 1..Len(out) : out[i].k = "group"}

(* C19: printResults prints the severity groups in the order critical,     *)
(* high, medium, low, one group for each severity that has issues, and     *)
(* under each group header the issues of that severity in the order they   *)
(* have in result.issues.                                                  *)
C19_SeverityGroups ==
  (pc = "exited" /\ exitCode = 0) =>
    /\ \A g, h \in GroupHeaders : g < h => SeverityRank(out[g].a) < SeverityRank(out[h].a)
    /\ \A i \in 1..Len(result.issues) :
         \E g \in GroupHeaders : out[g].a = result.issues[i].severity
    /\ \A g \in GroupHeaders :
         LET own == SelectSeq(result.issues, LAMBDA i : i.severity = out[g].a)
         IN /\ own # <<>>
            /\ g + Len(own) <= Len(out)
            /\ \A j \in 1..Len(own) :
                 /\ out[g + j].k = "issue"
                 /\ out[g + j].a = own[j].category
                 /\ out[g + j].b = own[j].description
            /\ (g + Len(own) < Len(out)) => out[g + Len(own) + 1].k = "group"

C19_Witness ==
  /\ pc = "exited"
  /\ exitCode = 0
  /\ result.issues = <<Issue("low", "bug", "d2"), Issue("critical", "bug", "d1"),
                       Issue("low", "bug", "d1")>>
  /\ \E g \in GroupHeaders :
       /\ out[g].a = "critical" /\ out[g + 1].b = "d1"
       /\ out[g + 2].k = "group" /\ out[g + 2].a = "low"
       /\ out[g + 3].b = "d2" /\ out[g + 4].b = "d1"


(* ------------------------------------------------------------------ C20 *)
(* What one call of the consumer holds after it has consumed the stream es *)
(* with no other call in the process.                                      *)
RECURSIVE Alone(_, _)
Alone(sc, es) ==
  IF es = <<>> THEN [toolCallCount |-> 0, result |-> NullResult, out |-> <<>>]
  ELSE LET p == Alone(sc, SubSeq(es, 1, Len(es) - 1))
           m == Last(es)
           r == SimpleOnMessage(p.toolCallCount, m)
       IN IF sc = "simple"
            THEN [toolCallCount |-> r.count, result |-> p.result, out |-> p.out \o r.lines]
            ELSE [toolCallCount |-> p.toolCallCount, result |-> AdvancedResult(p.result, m),
                  out |-> p.out \o AdvancedLines(m)]

OutcomeOf(o) ==
  IF StatusLines(o) = <<>> THEN [kind |-> "Pending", reason |-> ""]
  ELSE StatusOfLine(Last(StatusLines(o)))

(* C20: however the loop iterations of two calls of a consumer interleave, *)
(* each call has the tool count, the result and the outcome it has when it *)
(* consumes its own stream alone.                                          *)
C20_NoSharedState ==
  /\ toolCallCount = Alone(script, events).toolCallCount
  /\ result = Alone(script, events).result
  /\ OutcomeOf(out) = OutcomeOf(Alone(script, events).out)
  /\ other.toolCallCount = Alone(script, other.events).toolCallCount
  /\ other.result = Alone(script, other.events).result
  /\ OutcomeOf(other.out) = OutcomeOf(Alone(script, other.events).out)

C20_Witness ==
  /\ script = "simple"
  /\ pc = "returned" /\ other.pc = "returned"
  /\ events = <<AssistantMsg(<<ReadBlock>>), ResultMsg("success", ValidPayload, 342)>>
  /\ other.events = <<AssistantMsg(<<TextBlock, GrepBlock>>), AssistantMsg(<<ReadBlock>>)>>
  /\ toolCallCount = 1 /\ other.toolCallCount = 2
  /\ OutcomeOf(out).kind = "Success" /\ OutcomeOf(other.out).kind = "Pending"


(* ------------------------------------------------------------------ C21 *)
(* C21, as stated, for runCodeReview: once the caller has asked for the    *)
(* run to be stopped, iteration stops before the next event: no further    *)
(* event is handled.                                                       *)
C21_Original == [][abortRequested => events' = events]_vars

(* C21, amended: runCodeReview takes no notice of a request to stop: the   *)
(* request changes nothing, every event delivered after it is handled in   *)
(* full and leaves the consumer in its loop, and the loop is left only     *)
(* because the stream has ended, by the source closing (the function       *)
(* returns) or by the source faulting (the .catch handler exits with 1).   *)
C21_Amended ==
  [][/\ abortRequested' # abortRequested =>
          UNCHANGED <<script, pc, events, out, toolCallCount, result, exitCode>>
     /\ events' # events =>
          /\ pc = "loop" /\ pc' = "loop"
          /\ out' = out \o AdvancedLines(Last(events'))
          /\ result' = AdvancedResult(result, Last(events'))
     /\ (pc = "loop" /\ pc' = "returned") => UNCHANGED <<events, out, result>>
     /\ (pc = "loop" /\ pc' = "exited") => (Faulted' /\ exitCode' = 1)]_vars

C21_Witness ==
  /\ abortRequested
  /\ pc = "exited"
  /\ ~Faulted
  /\ Len(events) = 2
  /\ Last(events).type = "result"
  /\ Len(StatusLines(out)) = 1


(* ------------------------------------------------------------------ C22 *)
(* C22: when the stream has ended normally, runCodeReview returns a value  *)
(* other than null exactly when some success result with a truthy          *)
(* structured_output was received, and then it returns the                 *)
(* structured_output of the last such message, also when a failure result  *)
(* came after it.                                                          *)
C22_ReturnsLastAccepted ==
  (script = "advanced" /\ pc = "returned") =>
    /\ (result # NullResult) <=> (AcceptedResults # <<>>)
    /\ AcceptedResults # <<>> => result = Last(AcceptedResults).structured_output

C22_Witness ==
  /\ script = "advanced"
  /\ pc = "returned"
  /\ Len(events) = 2
  /\ events[1] = ResultMsg("success", ValidPayload, 342)
  /\ events[2].type = "result" /\ events[2].subtype \in FailureSubtypes
  /\ result = ValidPayload


(* ------------------------------------------------------------------ C23 *)
(* A result message with subtype success and no structured_output. *)
IsBareSuccess(m) ==
  m.type = "result" /\ m.subtype = "success" /\ m.structured_output.kind # "object"

BareSuccesses == SelectSeq(events, IsBareSuccess)

(* C23: in the advanced script a success result without structured_output *)
(* is handled as a failure: result stays as it was, the line 'Review       *)
(* failed: success' is printed, and when no success result has set a value *)
(* main prints that no results were returned and exits with status 1.      *)
C23_BareSuccessFails ==
  [][script = "advanced" =>
       /\ (events' # events /\ IsBareSuccess(Last(events'))) =>
            /\ result' = result
            /\ out' = out \o <<Line("failed", "success", "", 0)>>
       /\ (pc = "returned" /\ pc' = "exited" /\ BareSuccesses # <<>> /\ AcceptedResults = <<>>) =>
            /\ Last(out').k = "noresults"
            /\ exitCode' = 1]_vars

C23_Witness ==
  /\ script = "advanced"
  /\ pc = "exited"
  /\ events = <<ResultMsg("success", NoPayload, 342)>>
  /\ out = <<Line("failed", "success", "", 0), Line("noresults", "", "", 0)>>
  /\ result = NullResult
  /\ exitCode = 1


(* ------------------------------------------------------------------ C24 *)
(* The size printed in the header of a severity group, 0 if the group is   *)
(* not printed.                                                            *)
GroupSize(sev) ==
  IF \E g \in GroupHeaders : out[g].a = sev
    THEN (CHOOSE n \in 0..Len(out) : \E g \in GroupHeaders : out[g].a = sev /\ out[g].n = n)
    ELSE 0

(* C24, as stated: for every result that runCodeReview hands to            *)
(* printResults, the sizes of the critical, high, medium and low groups    *)
(* add up to the 'Issues Found' total, and as many issues are printed as   *)
(* are counted.                                                            *)
C24_Original ==
  (pc = "exited" /\ exitCode = 0) =>
    LET found == Last(LinesOfKind(out, "issuesfound")).n
    IN /\ found = Len(result.issues)
       /\ GroupSize("critical") + GroupSize("high") + GroupSize("medium") + GroupSize("low") = found
       /\ Len(LinesOfKind(out, "issue")) = found


(* ------------------------------------------------------------------ C25 *)
(* The blocks of the stream that have a text field or a name field, and    *)
(* the text and tool lines printed, both in order.                         *)
DispatchedBlocks ==
  SelectSeq(AllBlocks(events), LAMBDA b : "text" \in b.has \/ "name" \in b.has)

DispatchLines == SelectSeq(out, LAMBDA l : l.k \in {"text", "tool"})

NameOnlyBlocks ==
  SelectSeq(AllBlocks(events), LAMBDA b : "name" \in b.has /\ "text" \notin b.has)

(* C25: in the basic and the simple script every content block is handled  *)
(* by at most one branch: a block with a text field prints its text and    *)
(* nothing else, a block with a name field and no text field prints one    *)
(* tool line, any other block and any other message prints neither, and    *)
(* reviewCode's counter is the number of blocks with a name field and no   *)
(* text field.                                                             *)
C25_OneHandlerPerBlock ==
  script \in {"basic", "simple"} =>
    /\ Len(DispatchLines) = Len(DispatchedBlocks)
    /\ \A i \in 1..Len(DispatchedBlocks) :
         IF "text" \in DispatchedBlocks[i].has
           THEN DispatchLines[i].k = "text" /\ DispatchLines[i].a = DispatchedBlocks[i].text
           ELSE DispatchLines[i].k = "tool" /\ DispatchLines[i].a = DispatchedBlocks[i].name
    /\ toolCallCount = (IF script = "simple" THEN Len(NameOnlyBlocks) ELSE 0)

C25_Witness ==
  /\ script = "simple"
  /\ events = <<AssistantMsg(<<TextAndNameBlock, ReadBlock>>), ResultMsg("success", NoPayload, 342)>>
  /\ toolCallCount = 1
  /\ DispatchLines = <<Line("text", "both", "", 0), Line("tool", "Read", "", 1)>>


(* ------------------------------------------------------------------ C26 *)
ErrorLines == LinesOfKind(out, "error")

(* C26: in each script an error raised while the stream is consumed (or    *)
(* later, inside main) ends the process with exit status 1 after one error *)
(* line, and the API-key tip is printed, right after that line, exactly    *)
(* when the error message contains ANTHROPIC_API_KEY; without an error no  *)
(* tip is printed.                                                         *)
C26_ErrorExitAndTip ==
  /\ ErrorLines = <<>> => LinesOfKind(out, "tip") = <<>>
  /\ ErrorLines # <<>> =>
       /\ pc = "exited"
       /\ exitCode = 1
       /\ Len(ErrorLines) = 1
       /\ IF \E j \in 1..Len(ErrorLines[1].msg) : ErrorLines[1].msg[j] = "ANTHROPIC_API_KEY"
            THEN Len(out) >= 2 /\ out[Len(out) - 1].k = "error" /\ Last(out).k = "tip"
                 /\ Len(LinesOfKind(out, "tip")) = 1
            ELSE Last(out).k = "error" /\ LinesOfKind(out, "tip") = <<>>

C26_Witness ==
  /\ script = "basic"
  /\ pc = "exited"
  /\ exitCode = 1
  /\ Len(events) = 1
  /\ Len(out) >= 2
  /\ out[Len(out) - 1].k = "error"
  /\ out[Len(out) - 1].msg[1] = "ANTHROPIC_API_KEY"
  /\ Last(out).k = "tip"


(* ------------------------------------------------------------------ C27 *)
RECURSIVE BasicOutput(_)
BasicOutput(es) ==
  IF es = <<>> THEN <<>>
  ELSE BasicOutput(SubSeq(es, 1, Len(es) - 1)) \o BasicLines(Last(es))

(* What the loop prints when it handles each event of es once, in order. *)
LoopOutput(sc, es) == IF sc = "basic" THEN BasicOutput(es) ELSE Alone(sc, es).out

HandledOnceInOrder ==
  /\ IsPrefix(LoopOutput(script, events), out)
  /\ pc \in {"loop", "returned"} => out = LoopOutput(script, events)
  /\ Faulted => (pc = "exited" /\ ErrorLines # <<>>)

(* C27: on a finite stream and with a fair source every run comes to its   *)
(* end: each delivered event has been handled exactly once and in arrival  *)
(* order, a fault of the source is reported at once, a consumer whose      *)
(* source has closed returns and its script runs to its exit.              *)
C27_Terminates ==
  /\ []HandledOnceInOrder
  /\ (pc = "returned") ~> (pc = "exited")
  /\ <>[](pc = "exited")

C27_Witness ==
  /\ script = "simple"
  /\ pc = "exited"
  /\ ~Faulted
  /\ events = <<AssistantMsg(<<ReadBlock>>), ResultMsg("error_max_turns", NoPayload, 342)>>
  /\ out = LoopOutput(script, events)
  /\ Len(out) = 2

====
